---- MODULE Spec2Model ----
(***************************************************************************)
(* Three independent components of the repository slice:                   *)
(*                                                                         *)
(*  - the element registry of the fake driver (wrapNewEl, findElOrEls):    *)
(*    an id -> node map with a running counter;                            *)
(*  - the mkdocs.yml loader of packages/docutils/lib/fs.ts (readYaml,      *)
(*    readMkDocsYml): memoized asynchronous reads and the INHERIT chain    *)
(*    merge;                                                               *)
(*  - the SandboxStore of packages/test-support/lib/sandbox-utils.js.      *)
(*                                                                         *)
(* The registry is exercised by specification Spec, the loader by SpecLoad *)
(* (merging), SpecChain (chains of any shape, with fairness), SpecDirs     *)
(* (site_dir and docs_dir), SpecMemo (repeated and concurrent calls over a *)
(* changing storage) and SpecShare (several documents of one chain loaded  *)
(* in one process), the store by SpecSandbox; each leaves the other        *)
(* components' variables untouched.                                        *)
(***************************************************************************)
EXTENDS Integers, Sequences, FiniteSets, TLC

VARIABLES
    \* ---- element registry
    elMap,      \* id (decimal string) -> node
    maxElId,    \* running counter
    given,      \* history: node -> the id of the first handle returned for it
    lastCall,   \* the last registry operation: its arguments and its outcome
    \* ---- mkdocs.yml loader
    files,      \* storage: absolute path -> content of the document
    yamlCache,  \* readYaml's memoize cache: path string -> promise (with its object)
    mkCache,    \* readMkDocsYml's memoize cache: path string -> promise / execution
    reads,      \* number of storage reads (fs.readFile) per path string
    lastLoad,   \* the last readMkDocsYml call: its arguments and the promise it got
    firstLoad,  \* history: path string -> the promise its first call got
    \* ---- SandboxStore of the test support
    sandbox,    \* this.sandbox: 0 for undefined, else the identity of a sinon sandbox
    mocks,      \* this.mocks: the MockStore of the last createSandbox, if any
    sandboxes,  \* number of sinon sandboxes that exist (passed in or created)
    calls       \* history: the construction and the calls made since, with outcomes

regVars == <<elMap, maxElId, given, lastCall>>
loadVars == <<files, yamlCache, mkCache, reads, lastLoad, firstLoad>>
sbxVars == <<sandbox, mocks, sandboxes, calls>>
vars == <<elMap, maxElId, given, lastCall, files, yamlCache, mkCache, reads,
          lastLoad, firstLoad, sandbox, mocks, sandboxes, calls>>

(***************************************************************************)
(* Small helpers                                                           *)
(***************************************************************************)
\* this.mocks before the first createSandbox (undefined)
NoMocks == [sandbox |-> 0, defs |-> {}, live |-> FALSE]

Range(s) == {s[i] : i \in 1..Len(s)}

Digit(d) ==
    CASE d = 0 -> "0" [] d = 1 -> "1" [] d = 2 -> "2" [] d = 3 -> "3"
      [] d = 4 -> "4" [] d = 5 -> "5" [] d = 6 -> "6" [] d = 7 -> "7"
      [] d = 8 -> "8" [] d = 9 -> "9"

\* Number.prototype.toString() of a non-negative integer: its decimal digits.
RECURSIVE toString(_)
toString(n) == IF n < 10 THEN Digit(n) ELSE toString(n \div 10) \o Digit(n % 10)

(***************************************************************************)
(* ELEMENT REGISTRY                                                        *)
(***************************************************************************)
NumNodes == 3       \* node identities the app model can return
MaxMatches == 3     \* longest answer of one model query

Nodes == 1..NumNodes

\* The answers the app model can give to one query: any sequence of nodes.
Answers == UNION {[1..n -> Nodes] : n \in 0..MaxMatches}

\* strategy -> query method of the app model
qMap ==
    [s \in {"xpath", "id", "accessibility-id", "class-name", "tag-name", "css-selector"} |->
        CASE s = "xpath" -> "xpathQuery"
          [] s \in {"id", "accessibility-id"} -> "idQuery"
          [] s \in {"class-name", "tag-name"} -> "classQuery"
          [] s = "css-selector" -> "cssQuery"]

RecognizedStrategies == DOMAIN qMap

\* the strategies, selectors and contexts callers pass
StrategyInputs == RecognizedStrategies \cup {"bogus-strategy"}
BadSelector == "badsel"
SelectorInputs == {"x", BadSelector}
NoContext == "none"
ContextInputs == {NoContext, "fragment"}

NoId == "null"

\* a registry value: the id map and the counter
Registry(map, max) == [elMap |-> map, maxElId |-> max]

\* Faulty variant: the scan never finds the node.
getExistingElementForNode_neverFinds(reg, node) == NoId

\* Linear scan of the entries, in insertion order, for the node (by identity).
getExistingElementForNode(reg, node) ==
    LET hits == {k \in 1..reg.maxElId :
                    toString(k) \in DOMAIN reg.elMap /\ reg.elMap[toString(k)] = node}
    IN IF hits = {} THEN NoId
       ELSE toString(CHOOSE k \in hits : \A j \in hits : k <= j)

\* Faulty variant: the entry is stored under the next number but the counter is
\* not advanced.
addElement_noIncrement(reg, node) ==
    LET key == toString(reg.maxElId + 1)
    IN [reg |-> Registry([k \in DOMAIN reg.elMap \cup {key} |->
                             IF k = key THEN node ELSE reg.elMap[k]], reg.maxElId),
        id |-> key]

\* Faulty variant: the key is taken before the counter is incremented.
addElement_keyBeforeIncrement(reg, node) ==
    LET key == toString(reg.maxElId)
    IN [reg |-> Registry([k \in DOMAIN reg.elMap \cup {key} |->
                             IF k = key THEN node ELSE reg.elMap[k]], reg.maxElId + 1),
        id |-> key]

\* The registry with one more entry: the counter incremented, then the node stored
\* under the counter's decimal string.
addElement(reg, node) ==
    LET key == toString(reg.maxElId + 1)
    IN [reg |-> Registry([k \in DOMAIN reg.elMap \cup {key} |->
                             IF k = key THEN node ELSE reg.elMap[k]], reg.maxElId + 1),
        id |-> key]

\* wrapNewEl (lookupOrRegister): the registry afterwards and the id of the handle.
wrapNewEl(reg, node) ==
    LET existingElId == getExistingElementForNode(reg, node)
    IN IF existingElId # NoId
       THEN [reg |-> reg, id |-> existingElId]
       ELSE addElement(reg, node)

\* Faulty variant: each handle is put in front of the list instead of behind it.
RECURSIVE wrapAll_unshift(_, _)
wrapAll_unshift(reg, els) ==
    IF els = <<>> THEN [reg |-> reg, ids |-> <<>>]
    ELSE LET first == wrapNewEl(reg, Head(els))
             rest == wrapAll_unshift(first.reg, Tail(els))
         IN [reg |-> rest.reg, ids |-> rest.ids \o <<first.id>>]

\* wrapNewEl on every match, in order: the registry afterwards and the handles.
RECURSIVE wrapAll(_, _)
wrapAll(reg, els) ==
    IF els = <<>> THEN [reg |-> reg, ids |-> <<>>]
    ELSE LET first == wrapNewEl(reg, Head(els))
             rest == wrapAll(first.reg, Tail(els))
         IN [reg |-> rest.reg, ids |-> <<first.id>> \o rest.ids]

\* History kept beside the registry: the first id ever handed out for a node.
RECURSIVE Record(_, _, _)
Record(g, nodes, ids) ==
    IF nodes = <<>> THEN g
    ELSE LET n == Head(nodes)
             g1 == IF n \in DOMAIN g THEN g
                   ELSE [m \in DOMAIN g \cup {n} |-> IF m = n THEN Head(ids) ELSE g[m]]
         IN Record(g1, Tail(nodes), Tail(ids))

\* What one registry operation was asked and what it answered. `queried` is the
\* query method the app model was asked ("" when it was not asked), `els` its
\* answer, `nodes` the nodes handed to wrapNewEl and `result` their ids, in order.
\* `seen` is history: every node of `nodes` had a handle before this call.
Call(op, strategy, selector, mult, queried, els, outcome, nodes, result) ==
    [op |-> op, strategy |-> strategy, selector |-> selector, mult |-> mult,
     queried |-> queried, els |-> els, outcome |-> outcome, nodes |-> nodes,
     result |-> result, seen |-> FALSE]

NoCall == Call("none", "", "", FALSE, "", <<>>, "none", <<>>, <<>>)

\* Faulty variant: the selector is checked before the strategy.
checkArguments_selectorFirst(strategy, selector) ==
    IF selector = BadSelector THEN "InvalidSelectorError"
    ELSE IF strategy \notin RecognizedStrategies THEN "UnknownCommandError"
    ELSE "ok"

\* Faulty variant: the selector is not checked.
checkArguments_noSelectorCheck(strategy, selector) ==
    IF strategy \notin RecognizedStrategies THEN "UnknownCommandError" ELSE "ok"

\* The argument checks of findElOrEls, in the order they are made.
checkArguments(strategy, selector) ==
    IF strategy \notin RecognizedStrategies THEN "UnknownCommandError"
    ELSE IF selector = BadSelector THEN "InvalidSelectorError"
    ELSE "ok"

\* Faulty variant: every match is registered, whatever `mult` is.
registerMatches_all(reg, els, mult) ==
    LET all == wrapAll(reg, els)
    IN IF mult
       THEN [reg |-> all.reg, outcome |-> "handles", nodes |-> els, ids |-> all.ids]
       ELSE [reg |-> all.reg, outcome |-> "handle", nodes |-> <<els[1]>>,
             ids |-> <<all.ids[1]>>]

\* One or more matches: every match is registered when `mult`, else only the first.
registerMatches(reg, els, mult) ==
    IF mult
    THEN LET all == wrapAll(reg, els)
         IN [reg |-> all.reg, outcome |-> "handles", nodes |-> els, ids |-> all.ids]
    ELSE LET one == wrapNewEl(reg, els[1])
         IN [reg |-> one.reg, outcome |-> "handle", nodes |-> <<els[1]>>,
             ids |-> <<one.id>>]

\* Faulty variant: zero matches always fail.
noMatches_alwaysThrows(mult) == "NoSuchElementError"

\* Zero matches: an empty sequence when `mult`, else the call fails.
noMatches(mult) == IF mult THEN "handles" ELSE "NoSuchElementError"

\* The outcome of findElOrEls on a registry, `els` being the answer the app model
\* gives when (and if) it is queried.
findElOrEls(reg, strategy, selector, mult, ctx, els) ==
    LET check == checkArguments(strategy, selector)
    IN IF check # "ok"
       THEN [reg |-> reg,
             call |-> Call("findElOrEls", strategy, selector, mult, "", <<>>, check,
                           <<>>, <<>>)]
       ELSE IF Len(els) > 0
       THEN LET m == registerMatches(reg, els, mult)
            IN [reg |-> m.reg,
                call |-> Call("findElOrEls", strategy, selector, mult, qMap[strategy],
                              els, m.outcome, m.nodes, m.ids)]
       ELSE [reg |-> reg,
             call |-> Call("findElOrEls", strategy, selector, mult, qMap[strategy],
                           els, noMatches(mult), <<>>, <<>>)]

InitRegistry ==
    /\ elMap = <<>>
    /\ maxElId = 0
    /\ given = <<>>
    /\ lastCall = NoCall

\* The answers the app model may give to the query of one call: it is asked only
\* when the call gets as far as the query.
ModelAnswers(strategy, selector) ==
    IF strategy \in RecognizedStrategies /\ selector # BadSelector THEN Answers ELSE {<<>>}

\* A caller registers a node directly.
WrapNewEl ==
    /\ lastCall = NoCall
    /\ \E node \in Nodes :
        \E r \in {wrapNewEl(Registry(elMap, maxElId), node)} :
           /\ elMap' = r.reg.elMap
           /\ maxElId' = r.reg.maxElId
           /\ given' = Record(given, <<node>>, <<r.id>>)
           /\ lastCall' = [Call("wrapNewEl", "", "", FALSE, "", <<>>, "handle",
                                <<node>>, <<r.id>>)
                                   EXCEPT !.seen = node \in DOMAIN given]
           /\ UNCHANGED <<loadVars, sbxVars>>

\* A caller runs a find command; the app model answers `els` if it is queried.
FindElOrEls ==
    /\ lastCall = NoCall
    /\ \E strategy \in StrategyInputs, selector \in SelectorInputs, mult \in BOOLEAN,
          ctx \in ContextInputs :
        \E els \in ModelAnswers(strategy, selector) :
        \E r \in {findElOrEls(Registry(elMap, maxElId), strategy, selector, mult, ctx, els)} :
           /\ elMap' = r.reg.elMap
           /\ maxElId' = r.reg.maxElId
           /\ given' = Record(given, r.call.nodes, r.call.result)
           /\ lastCall' = [r.call EXCEPT !.seen = r.call.nodes # <<>> /\
                                   Range(r.call.nodes) \subseteq DOMAIN given]
           /\ UNCHANGED <<loadVars, sbxVars>>

\* The caller takes the outcome; the driver runs one command at a time, so the
\* next command starts only then.
Return ==
    /\ lastCall # NoCall
    /\ lastCall' = NoCall
    /\ UNCHANGED <<elMap, maxElId, given>>
    /\ UNCHANGED <<loadVars, sbxVars>>

(***************************************************************************)
(* MKDOCS.YML LOADER: paths                                                *)
(*                                                                         *)
(* A path string is the sequence of its segments; an absolute path starts  *)
(* with the segment "/".                                                   *)
(***************************************************************************)
NumDocs == 3        \* documents the storage can hold

ProcessCwd == <<"/", "w">>      \* process.cwd()

isAbsolute(p) == p # <<>> /\ p[1] = "/"

\* The segments of an absolute path with "." dropped and ".." applied.
RECURSIVE normalizeSegments(_, _)
normalizeSegments(done, todo) ==
    IF todo = <<>> THEN done
    ELSE LET seg == Head(todo)
         IN IF seg = "." \/ seg = ""
            THEN normalizeSegments(done, Tail(todo))
            ELSE IF seg = ".."
            THEN normalizeSegments(IF done = <<>> THEN done
                                   ELSE SubSeq(done, 1, Len(done) - 1), Tail(todo))
            ELSE normalizeSegments(Append(done, seg), Tail(todo))

\* path.resolve(...args): the arguments are applied left to right on process.cwd(),
\* an absolute argument replacing what came before; the result is normalized.
RECURSIVE resolveOnto(_, _)
resolveOnto(base, args) ==
    IF args = <<>> THEN <<"/">> \o normalizeSegments(<<>>, Tail(base))
    ELSE resolveOnto(IF isAbsolute(Head(args)) THEN Head(args) ELSE base \o Head(args),
                     Tail(args))

pathResolve(args) == resolveOnto(ProcessCwd, args)

\* path.dirname(p): the path without its last segment (not normalized).
pathDirname(p) ==
    IF isAbsolute(p)
    THEN IF Len(p) <= 2 THEN <<"/">> ELSE SubSeq(p, 1, Len(p) - 1)
    ELSE IF Len(p) <= 1 THEN <<".">> ELSE SubSeq(p, 1, Len(p) - 1)

(***************************************************************************)
(* MKDOCS.YML LOADER: documents                                            *)
(*                                                                         *)
(* A parsed YAML document is a function from key paths to values.  A value *)
(* is a string, written as the sequence of its "/"-separated segments, or  *)
(* one of the markers below for a mapping, a sequence and null; the        *)
(* entries of a sequence have the keys "0", "1", ...                       *)
(***************************************************************************)
Mapping == <<"{}">>
Array == <<"[]">>
Null == <<"null">>
EmptyDoc == <<>>

\* lodash isObject on a value of a document
isObject(v) == v \in {Mapping, Array}

\* JavaScript truthiness of obj[key]: undefined, null and "" are false.
truthy(obj, key) == <<key>> \in DOMAIN obj /\ obj[<<key>>] \notin {Null, <<>>}

\* key paths of src one level below `prefix`
childPaths(src, prefix) ==
    {q \in DOMAIN src : Len(q) = Len(prefix) + 1 /\ SubSeq(q, 1, Len(prefix)) = prefix}

\* key paths of src at or below p
subtree(src, p) ==
    {q \in DOMAIN src : Len(q) >= Len(p) /\ SubSeq(q, 1, Len(p)) = p}

\* lodash baseMerge with customDefaultsMerge: the key paths of src that are
\* written into obj.  A key obj lacks takes the whole (cloned) source value; a key
\* where both hold an object (mapping or array) is merged recursively; any other
\* key obj holds is left alone.
RECURSIVE baseMerge(_, _, _)
baseMerge(obj, src, prefix) ==
    UNION {IF q \notin DOMAIN obj THEN subtree(src, q)
           ELSE IF isObject(obj[q]) /\ isObject(src[q]) THEN baseMerge(obj, src, q)
           ELSE {} : q \in childPaths(src, prefix)}

\* _.defaultsDeep(obj, src): obj with the missing key paths filled in from src.
defaultsDeep(obj, src) ==
    LET filled == baseMerge(obj, src, <<>>)
    IN [q \in DOMAIN obj \cup filled |-> IF q \in DOMAIN obj THEN obj[q] ELSE src[q]]

\* obj with obj[key] = value
setKey(obj, key, value) ==
    [q \in DOMAIN obj \cup {<<key>>} |-> IF q = <<key>> THEN value ELSE obj[q]]

(***************************************************************************)
(* MKDOCS.YML LOADER: readYaml and readMkDocsYml                           *)
(***************************************************************************)
\* a promise of readYaml: pending while the file is read, then resolved with the
\* parsed object (which later code mutates in place) or rejected
YamlPromise(st, obj, err) == [st |-> st, obj |-> obj, err |-> err]

\* readYaml(filepath), the synchronous part: a cache hit returns the cached
\* promise; a miss calls fs.readFile and caches the pending promise.
readYaml(cache, filepath) ==
    IF filepath \in DOMAIN cache THEN cache
    ELSE [k \in DOMAIN cache \cup {filepath} |->
            IF k = filepath THEN YamlPromise("pending", EmptyDoc, "") ELSE cache[k]]

\* the storage reads after readYaml(filepath) on `cache`
countRead(cache, filepath) ==
    IF filepath \in DOMAIN cache THEN reads
    ELSE [k \in DOMAIN reads \cup {filepath} |->
            IF k = filepath THEN 1 ELSE reads[k]]

\* fs.readFile and YAML.parse of the file a path string names (relative to
\* process.cwd())
parseFile(filepath) ==
    LET abs == pathResolve(<<filepath>>)
    IN IF abs \notin DOMAIN files THEN YamlPromise("rejected", EmptyDoc, "NotFoundError")
       ELSE IF ~files[abs].ok THEN YamlPromise("rejected", EmptyDoc, "ParseError")
       ELSE YamlPromise("resolved", files[abs].doc, "")

HopsCap == NumDocs + 1

\* one execution of readMkDocsYml's async function (= its cached promise):
\* pc is the await it is suspended at, inheritPath the loop variable, hops the
\* loop iterations completed (saturating), ret the value at the time it returned
\* (filepath and cwd are the arguments of the call that started it)
Execution(filepath, st, pc, cwd, inheritPath, hops, ret, err) ==
    [filepath |-> filepath, st |-> st, pc |-> pc, cwd |-> cwd,
     inheritPath |-> inheritPath, hops |-> hops, ret |-> ret, err |-> err]

\* lines 240-242: site_dir of the top-level document, resolved in place
resolveChildDirs(obj, filepath, cwd) ==
    IF truthy(obj, "site_dir")
    THEN setKey(obj, "site_dir", pathResolve(<<cwd, pathDirname(filepath), obj[<<"site_dir">>]>>))
    ELSE obj

\* Faulty variant: the directory of the inherited document is left out.
resolveInheritDirs_noDirname(obj, inheritPath) ==
    LET o1 == IF truthy(obj, "site_dir")
              THEN setKey(obj, "site_dir", pathResolve(<<obj[<<"site_dir">>]>>))
              ELSE obj
    IN IF truthy(o1, "docs_dir")
       THEN setKey(o1, "docs_dir", pathResolve(<<o1[<<"docs_dir">>]>>))
       ELSE o1

\* lines 247-254: site_dir and docs_dir of an inherited document, resolved in place
resolveInheritDirs(obj, inheritPath) ==
    LET o1 == IF truthy(obj, "site_dir")
              THEN setKey(obj, "site_dir",
                          pathResolve(<<pathDirname(inheritPath), obj[<<"site_dir">>]>>))
              ELSE obj
    IN IF truthy(o1, "docs_dir")
       THEN setKey(o1, "docs_dir",
                   pathResolve(<<pathDirname(inheritPath), o1[<<"docs_dir">>]>>))
       ELSE o1

\* Faulty variant: the loop variable is not cleared at a document without INHERIT.
nextInheritPath_notCleared(obj, path) ==
    IF truthy(obj, "INHERIT")
    THEN pathResolve(<<pathDirname(path), obj[<<"INHERIT">>]>>)
    ELSE path

\* lines 244 and 256-258: the next document of the chain, <<>> for undefined
nextInheritPath(obj, path) ==
    IF truthy(obj, "INHERIT")
    THEN pathResolve(<<pathDirname(path), obj[<<"INHERIT">>]>>)
    ELSE <<>>

setCache(cache, key, value) ==
    [k \in DOMAIN cache \cup {key} |-> IF k = key THEN value ELSE cache[k]]

\* Faulty variant: the cache key is made of both arguments.
memoKey_withCwd(filepath, cwd) == filepath \o cwd

\* _.memoize without a resolver (line 237): the cache key is the first argument
memoKey(filepath, cwd) == filepath

\* Faulty variant: the cache serves settled promises only.
memoized_onlySettled(cache, key) == key \in DOMAIN cache /\ cache[key].st # "pending"

\* Faulty variant: a rejected promise is not served from the cache.
memoized_unlessRejected(cache, key) == key \in DOMAIN cache /\ cache[key].st # "rejected"

\* _.memoize: cache.has(key); the cached value is the promise the async function
\* returned, whatever its state
memoized(cache, key) == key \in DOMAIN cache

\* what a caller of readMkDocsYml holds: its arguments, the promise it was handed
\* (named by its cache key) and whether the cache served it
LoadCall(filepath, cwd, promise, hit) ==
    [filepath |-> filepath, cwd |-> cwd, promise |-> promise, hit |-> hit]

NoLoad == LoadCall(<<>>, <<>>, <<>>, FALSE)

\* readMkDocsYml(filepath, cwd): a cache hit hands out the cached promise; on a
\* miss the execution is cached and runs up to its first await, readYaml(filepath).
ReadMkDocsYml(filepath, cwd) ==
    \E key \in {memoKey(filepath, cwd)} :
    \E hit \in {memoized(mkCache, key)} :
        /\ lastLoad' = LoadCall(filepath, cwd, key, hit)
        /\ firstLoad' = IF filepath \in DOMAIN firstLoad THEN firstLoad
                        ELSE setCache(firstLoad, filepath, key)
        /\ IF hit
           THEN UNCHANGED <<mkCache, yamlCache, reads>>
           ELSE /\ mkCache' = setCache(mkCache, key,
                       Execution(filepath, "pending", "child", cwd, <<>>, 0, EmptyDoc, ""))
                /\ yamlCache' = readYaml(yamlCache, filepath)
                /\ reads' = countRead(yamlCache, filepath)
        /\ UNCHANGED files

\* fs.readFile of a pending readYaml completes; the content is parsed and the
\* promise settles.
ReadFileDone ==
    \E filepath \in DOMAIN yamlCache :
        /\ yamlCache[filepath].st = "pending"
        /\ yamlCache' = [yamlCache EXCEPT ![filepath] = parseFile(filepath)]
        /\ UNCHANGED <<files, mkCache, reads, lastLoad, firstLoad>>
        /\ UNCHANGED <<regVars, sbxVars>>

\* Faulty variant: the loop gives up after as many iterations as there can be
\* documents.
continue_hopLimit(cache, key, exec, inheritPath, hops) ==
    IF inheritPath # <<>> /\ hops < NumDocs
    THEN /\ mkCache' = [mkCache EXCEPT ![key] =
                Execution(exec.filepath, "pending", "inherit", exec.cwd, inheritPath, hops,
                          EmptyDoc, "")]
         /\ yamlCache' = readYaml(cache, inheritPath)
         /\ reads' = countRead(cache, inheritPath)
    ELSE /\ mkCache' = [mkCache EXCEPT ![key] =
                Execution(exec.filepath, "resolved", "done", exec.cwd, <<>>, hops,
                          cache[exec.filepath].obj, "")]
         /\ yamlCache' = cache
         /\ reads' = reads

\* The execution continues with what follows its loop body or its first await:
\* `while (inheritPath)` either awaits readYaml(inheritPath) or ends the loop and
\* the function returns mkDocsYml.
continue(cache, key, exec, inheritPath, hops) ==
    IF inheritPath # <<>>
    THEN /\ mkCache' = [mkCache EXCEPT ![key] =
                Execution(exec.filepath, "pending", "inherit", exec.cwd, inheritPath, hops,
                          EmptyDoc, "")]
         /\ yamlCache' = readYaml(cache, inheritPath)
         /\ reads' = countRead(cache, inheritPath)
    ELSE /\ mkCache' = [mkCache EXCEPT ![key] =
                Execution(exec.filepath, "resolved", "done", exec.cwd, <<>>, hops,
                          cache[exec.filepath].obj, "")]
         /\ yamlCache' = cache
         /\ reads' = reads

\* `await readYaml(filepath)` (line 239) settles and the execution resumes.
ResumeChild ==
    \E key \in DOMAIN mkCache :
        LET exec == mkCache[key]
            filepath == exec.filepath
            yaml == yamlCache[filepath]
        IN /\ exec.st = "pending" /\ exec.pc = "child"
           /\ yaml.st # "pending"
           /\ IF yaml.st = "rejected"
              THEN /\ mkCache' = [mkCache EXCEPT ![key] =
                        Execution(filepath, "rejected", "done", exec.cwd, <<>>, 0, EmptyDoc,
                                  yaml.err)]
                   /\ UNCHANGED <<yamlCache, reads>>
              ELSE \E mkDocsYml \in {resolveChildDirs(yaml.obj, filepath, exec.cwd)} :
                    continue([yamlCache EXCEPT ![filepath].obj = mkDocsYml], key, exec,
                             nextInheritPath(mkDocsYml, filepath), 0)
           /\ UNCHANGED <<files, lastLoad, firstLoad>>
           /\ UNCHANGED <<regVars, sbxVars>>

\* `await readYaml(inheritPath)` (line 246) settles and the loop body runs.
ResumeInherit ==
    \E key \in DOMAIN mkCache :
        LET exec == mkCache[key]
            filepath == exec.filepath
            inheritPath == exec.inheritPath
            yaml == yamlCache[inheritPath]
        IN /\ exec.st = "pending" /\ exec.pc = "inherit"
           /\ yaml.st # "pending"
           /\ IF yaml.st = "rejected"
              THEN /\ mkCache' = [mkCache EXCEPT ![key] =
                        Execution(filepath, "rejected", "done", exec.cwd, <<>>, exec.hops,
                                  EmptyDoc, yaml.err)]
                   /\ UNCHANGED <<yamlCache, reads>>
              ELSE \E inheritYml \in {resolveInheritDirs(yaml.obj, inheritPath)} :
                   \E c1 \in {[yamlCache EXCEPT ![inheritPath].obj = inheritYml]} :
                   \E mkDocsYml \in {IF inheritPath = filepath THEN inheritYml
                                     ELSE defaultsDeep(c1[filepath].obj, inheritYml)} :
                    continue([c1 EXCEPT ![filepath].obj = mkDocsYml], key, exec,
                             nextInheritPath(inheritYml, inheritPath),
                             IF exec.hops < HopsCap THEN exec.hops + 1 ELSE HopsCap)
           /\ UNCHANGED <<files, lastLoad, firstLoad>>
           /\ UNCHANGED <<regVars, sbxVars>>

(***************************************************************************)
(* MKDOCS.YML LOADER: storage contents and callers                         *)
(***************************************************************************)
\* Document i is /w/d<i>/mkdocs.yml; it names document j as ../d<j>/mkdocs.yml.
DirName(i) == "d" \o toString(i)
DocPath(i) == <<"/", "w", DirName(i), "mkdocs.yml">>
RelDocPath(i) == <<DirName(i), "mkdocs.yml">>
InheritRef(j) == <<"..", DirName(j), "mkdocs.yml">>

Leaf(path, value) == path :> value

\* what a document may hold besides INHERIT: scalars, null, nested mappings and
\* sequences under the keys a, b and nav
Payloads ==
    { EmptyDoc,
      Leaf(<<"a">>, <<"1">>),
      Leaf(<<"a">>, <<"2">>) @@ Leaf(<<"b">>, <<"3">>),
      Leaf(<<"a">>, Null),
      Leaf(<<"a">>, Mapping) @@ Leaf(<<"a", "x">>, <<"1">>),
      Leaf(<<"a">>, Mapping) @@ Leaf(<<"a", "x">>, <<"2">>) @@ Leaf(<<"a", "y">>, <<"2">>),
      Leaf(<<"a">>, Mapping) @@ Leaf(<<"a", "x">>, Mapping) @@ Leaf(<<"a", "x", "z">>, <<"1">>),
      Leaf(<<"a">>, Mapping) @@ Leaf(<<"a", "x">>, Mapping) @@ Leaf(<<"a", "x", "y">>, <<"2">>)
          @@ Leaf(<<"b">>, <<"1">>),
      Leaf(<<"nav">>, Array) @@ Leaf(<<"nav", "0">>, <<"1">>),
      Leaf(<<"nav">>, Array) @@ Leaf(<<"nav", "0">>, <<"2">>) @@ Leaf(<<"nav", "1">>, <<"3">>) }

ChainPayloads ==
    { Leaf(<<"a">>, <<"1">>),
      Leaf(<<"a">>, Mapping) @@ Leaf(<<"a", "x">>, <<"2">>) @@ Leaf(<<"b">>, <<"3">>) }

File(ok, doc) == [ok |-> ok, doc |-> doc]

\* a chain of `len` documents, document i inheriting from document i + 1 and the
\* last one from `last` (0: it declares no INHERIT)
ChainFiles(len, payload, last) ==
    [p \in {DocPath(i) : i \in 1..len} |->
        LET i == CHOOSE i \in 1..len : DocPath(i) = p
            next == IF i < len THEN i + 1 ELSE last
        IN File(TRUE, IF next = 0 THEN payload[i]
                      ELSE payload[i] @@ Leaf(<<"INHERIT">>, InheritRef(next)))]

\* the path strings and cwd arguments callers pass
LoadPaths == {DocPath(1), RelDocPath(1)}
CwdInputs == {ProcessCwd, <<"/", "tmp">>}

InitLoaderIdle ==
    /\ files = <<>>
    /\ yamlCache = <<>>
    /\ mkCache = <<>>
    /\ reads = <<>>
    /\ lastLoad = NoLoad
    /\ firstLoad = <<>>

\* a fresh process whose storage holds an acyclic chain of valid documents
InitMerge ==
    /\ elMap = <<>> /\ maxElId = 0 /\ given = <<>> /\ lastCall = NoCall
    /\ sandbox = 0 /\ mocks = NoMocks /\ sandboxes = 0 /\ calls = <<>>
    /\ \E len \in 1..NumDocs : \E payload \in [1..len -> Payloads] :
          files = ChainFiles(len, payload, 0)
    /\ yamlCache = <<>>
    /\ mkCache = <<>>
    /\ reads = <<>>
    /\ lastLoad = NoLoad
    /\ firstLoad = <<>>

\* a fresh process whose storage holds a chain that ends, cycles back to one of
\* its documents or names a document that does not exist (last = len + 1), and in
\* which document `bad` (if any) does not parse
InitChain ==
    /\ elMap = <<>> /\ maxElId = 0 /\ given = <<>> /\ lastCall = NoCall
    /\ sandbox = 0 /\ mocks = NoMocks /\ sandboxes = 0 /\ calls = <<>>
    /\ \E len \in 1..NumDocs : \E payload \in [1..len -> ChainPayloads] :
       \E last \in 0..(len + 1), bad \in 0..len :
          files = [p \in DOMAIN ChainFiles(len, payload, last) |->
                      IF bad # 0 /\ p = DocPath(bad) THEN File(FALSE, EmptyDoc)
                      ELSE ChainFiles(len, payload, last)[p]]
    /\ yamlCache = <<>>
    /\ mkCache = <<>>
    /\ reads = <<>>
    /\ lastLoad = NoLoad
    /\ firstLoad = <<>>

\* One caller loads one document of a fresh process.
LoadOnce ==
    /\ mkCache = <<>>
    /\ \E filepath \in LoadPaths, cwd \in CwdInputs : ReadMkDocsYml(filepath, cwd)
    /\ UNCHANGED <<regVars, sbxVars>>

\* what a writer may put in the place of a document: a valid document that
\* declares no INHERIT
Rewrites == {File(TRUE, Leaf(<<"a">>, <<"9">>))}

\* Nested layout: document i is /w/d1/../d<i>/mkdocs.yml and names document
\* i + 1, in the directory below its own, as d<i+1>/mkdocs.yml.
RECURSIVE NestedDir(_)
NestedDir(i) == IF i = 0 THEN ProcessCwd ELSE NestedDir(i - 1) \o <<DirName(i)>>

NestedDocPath(i) == NestedDir(i) \o <<"mkdocs.yml">>
NestedRef(j) == <<DirName(j), "mkdocs.yml">>

\* the directory settings a document may declare, as relative paths
DirPayloads ==
    { EmptyDoc,
      Leaf(<<"site_dir">>, <<"site">>),
      Leaf(<<"docs_dir">>, <<"docs">>),
      Leaf(<<"site_dir">>, <<"..", "out">>) @@ Leaf(<<"docs_dir">>, <<"docs">>) }

\* a fresh process whose storage holds a nested chain of valid documents with
\* directory settings
InitDirs ==
    /\ elMap = <<>> /\ maxElId = 0 /\ given = <<>> /\ lastCall = NoCall
    /\ sandbox = 0 /\ mocks = NoMocks /\ sandboxes = 0 /\ calls = <<>>
    /\ \E len \in 1..NumDocs : \E payload \in [1..len -> DirPayloads] :
          files = [p \in {NestedDocPath(i) : i \in 1..len} |->
                      LET i == CHOOSE i \in 1..len : NestedDocPath(i) = p
                      IN File(TRUE, IF i = len THEN payload[i]
                                    ELSE payload[i] @@ Leaf(<<"INHERIT">>, NestedRef(i + 1)))]
    /\ yamlCache = <<>>
    /\ mkCache = <<>>
    /\ reads = <<>>
    /\ lastLoad = NoLoad
    /\ firstLoad = <<>>

\* what the documents of a chain loaded from several ends may hold
SharePayloads ==
    { EmptyDoc,
      Leaf(<<"docs_dir">>, <<"docs">>),
      Leaf(<<"site_dir">>, <<"site">>) @@ Leaf(<<"a">>, <<"1">>),
      Leaf(<<"nav">>, Array) @@ Leaf(<<"nav", "0">>, <<"2">>) @@ Leaf(<<"nav", "1">>, <<"3">>)
          @@ Leaf(<<"a">>, Mapping) @@ Leaf(<<"a", "x">>, <<"2">>) }

\* every document of the storage can be the one a caller loads; callers name it
\* by the absolute path, which is also how a child's INHERIT is resolved
SharePaths == {DocPath(i) : i \in 1..NumDocs}

\* a fresh process whose storage holds an acyclic chain of valid documents
InitShare ==
    /\ elMap = <<>> /\ maxElId = 0 /\ given = <<>> /\ lastCall = NoCall
    /\ sandbox = 0 /\ mocks = NoMocks /\ sandboxes = 0 /\ calls = <<>>
    /\ \E len \in 1..NumDocs : \E payload \in [1..len -> SharePayloads] :
          files = ChainFiles(len, payload, 0)
    /\ yamlCache = <<>>
    /\ mkCache = <<>>
    /\ reads = <<>>
    /\ lastLoad = NoLoad
    /\ firstLoad = <<>>

\* A caller loads a document that was not loaded yet, after the loads made
\* before it have settled (cwd is left to its default, process.cwd()).
LoadNext ==
    /\ \A key \in DOMAIN mkCache : mkCache[key].st # "pending"
    /\ \E filepath \in SharePaths, cwd \in {ProcessCwd} :
          /\ pathResolve(<<filepath>>) \in DOMAIN files
          /\ filepath \notin DOMAIN mkCache
          /\ ReadMkDocsYml(filepath, cwd)
    /\ UNCHANGED <<regVars, sbxVars>>

\* the file at an absolute path is one a writer put there
Rewritten(abs) ==
    /\ abs \in DOMAIN files
    /\ files[abs].ok
    /\ DOMAIN files[abs].doc = {<<"a">>}
    /\ files[abs].doc[<<"a">>] = <<"9">>

\* a fresh process whose storage holds an acyclic chain: document i holds a: i,
\* the last one ends the chain or names a missing document, and document `bad`
\* (if any) does not parse
InitMemo ==
    /\ elMap = <<>> /\ maxElId = 0 /\ given = <<>> /\ lastCall = NoCall
    /\ sandbox = 0 /\ mocks = NoMocks /\ sandboxes = 0 /\ calls = <<>>
    /\ \E len \in 1..NumDocs : \E last \in {0, len + 1}, bad \in 0..len :
          files = [p \in {DocPath(i) : i \in 1..len} |->
                      IF bad # 0 /\ p = DocPath(bad) THEN File(FALSE, EmptyDoc)
                      ELSE ChainFiles(len, [i \in 1..len |-> Leaf(<<"a">>, <<toString(i)>>)],
                                      last)[p]]
    /\ yamlCache = <<>>
    /\ mkCache = <<>>
    /\ reads = <<>>
    /\ lastLoad = NoLoad
    /\ firstLoad = <<>>

\* A caller loads a document, whatever was loaded before and whatever is in flight.
LoadAny ==
    /\ \E filepath \in LoadPaths, cwd \in CwdInputs : ReadMkDocsYml(filepath, cwd)
    /\ UNCHANGED <<regVars, sbxVars>>

\* Somebody else rewrites (or creates) a document of the storage.
WriteFile ==
    /\ \E i \in 1..NumDocs, f \in Rewrites :
          /\ ~Rewritten(DocPath(i))
          /\ files' = setCache(files, DocPath(i), f)
    /\ UNCHANGED <<yamlCache, mkCache, reads, lastLoad, firstLoad>>
    /\ UNCHANGED <<regVars, sbxVars>>

(***************************************************************************)
(* SANDBOX STORE (packages/test-support/lib/sandbox-utils.js)              *)
(***************************************************************************)
MaxCalls == 5       \* calls made on one store after its construction

\* the mock definitions a caller passes to createSandbox
MockDefs == {{}, {"fs"}}

\* what sinon's sandbox.verify() does: it returns, or throws when an
\* expectation was not met
SinonVerify == {"verified", "ExpectationError"}

\* a SandboxStore object
Store(sbx, mks, count) == [sandbox |-> sbx, mocks |-> mks, sandboxes |-> count]

\* new MockStore(sandbox).createMocks(mockDefs)
MockStore(sbx, mockDefs) == [sandbox |-> sbx, defs |-> mockDefs, live |-> TRUE]

\* createSandbox(mocks): the sandbox the store holds is kept, else a new sinon
\* sandbox is created; the mocks are made on it
createSandbox(store, mockDefs) ==
    LET sbx == IF store.sandbox # 0 THEN store.sandbox ELSE store.sandboxes + 1
    IN Store(sbx, MockStore(sbx, mockDefs),
             IF store.sandbox # 0 THEN store.sandboxes ELSE store.sandboxes + 1)

\* verify(): the outcome, given what the sandbox's own verify() does
verify(store, sinon) ==
    IF store.sandbox = 0 THEN "ReferenceError" ELSE sinon

\* Faulty variant: the mocks are reset, the sandbox stays.
reset_keepsSandbox(store) ==
    Store(store.sandbox,
          IF store.mocks = NoMocks THEN NoMocks ELSE [store.mocks EXCEPT !.live = FALSE],
          store.sandboxes)

\* reset(): this.mocks?.reset(); delete this.sandbox
reset(store) ==
    Store(0,
          IF store.mocks = NoMocks THEN NoMocks ELSE [store.mocks EXCEPT !.live = FALSE],
          store.sandboxes)

\* an entry of the history: the operation, its outcome and the sandbox the store
\* held when it ended
StoreCall(op, outcome, sbx) == [op |-> op, outcome |-> outcome, sandbox |-> sbx]

\* new SandboxStore(sandbox), with or without a sandbox
InitSandbox ==
    /\ elMap = <<>> /\ maxElId = 0 /\ given = <<>> /\ lastCall = NoCall
    /\ files = <<>> /\ yamlCache = <<>> /\ mkCache = <<>> /\ reads = <<>>
    /\ lastLoad = NoLoad /\ firstLoad = <<>>
    /\ \E passed \in {0, 1} :
          /\ sandbox = passed
          /\ sandboxes = passed
          /\ calls = <<StoreCall("new", "ok", passed)>>
    /\ mocks = NoMocks

CreateSandbox ==
    /\ Len(calls) <= MaxCalls
    /\ \E mockDefs \in MockDefs :
        \E store \in {createSandbox(Store(sandbox, mocks, sandboxes), mockDefs)} :
          /\ sandbox' = store.sandbox
          /\ mocks' = store.mocks
          /\ sandboxes' = store.sandboxes
          /\ calls' = Append(calls, StoreCall("createSandbox", "ok", store.sandbox))
    /\ UNCHANGED <<regVars, loadVars>>

Verify ==
    /\ Len(calls) <= MaxCalls
    /\ \E sinon \in SinonVerify :
          calls' = Append(calls, StoreCall("verify",
                                           verify(Store(sandbox, mocks, sandboxes), sinon),
                                           sandbox))
    /\ UNCHANGED <<sandbox, mocks, sandboxes>>
    /\ UNCHANGED <<regVars, loadVars>>

Reset ==
    /\ Len(calls) <= MaxCalls
    /\ \E store \in {reset(Store(sandbox, mocks, sandboxes))} :
          /\ sandbox' = store.sandbox
          /\ mocks' = store.mocks
          /\ sandboxes' = store.sandboxes
          /\ calls' = Append(calls, StoreCall("reset", "ok", store.sandbox))
    /\ UNCHANGED <<regVars, loadVars>>

(***************************************************************************)
(* Specifications                                                          *)
(***************************************************************************)
Init ==
    /\ InitRegistry
    /\ InitLoaderIdle
    /\ sandbox = 0 /\ mocks = NoMocks /\ sandboxes = 0 /\ calls = <<>>

Next == WrapNewEl \/ FindElOrEls \/ Return

Spec == Init /\ [][Next]_vars

NextLoad == LoadOnce \/ ReadFileDone \/ ResumeChild \/ ResumeInherit

SpecLoad == InitMerge /\ [][NextLoad]_vars

\* The event loop runs every continuation that is ready, and every file read
\* completes.
SpecChain ==
    /\ InitChain
    /\ [][NextLoad]_vars
    /\ WF_vars(ReadFileDone)
    /\ WF_vars(ResumeChild)
    /\ WF_vars(ResumeInherit)

\* loads of chains with directory settings
SpecDirs == InitDirs /\ [][NextLoad]_vars

NextShare == LoadNext \/ ReadFileDone \/ ResumeChild \/ ResumeInherit

\* one process loading several documents of one chain, one after the other
SpecShare == InitShare /\ [][NextShare]_vars

NextSandbox == CreateSandbox \/ Verify \/ Reset

\* one SandboxStore under any sequence of calls
SpecSandbox == InitSandbox /\ [][NextSandbox]_vars

NextMemo == LoadAny \/ WriteFile \/ ReadFileDone \/ ResumeChild \/ ResumeInherit

\* repeated and concurrent calls on a storage that changes underneath
SpecMemo == InitMemo /\ [][NextMemo]_vars

(***************************************************************************)
(* Properties of the element registry (checked under Spec)                 *)
(***************************************************************************)
IdOf(map, node) == CHOOSE id \in DOMAIN map : map[id] = node
Registered(map, node) == \E id \in DOMAIN map : map[id] = node

RECURSIVE ChainOf(_, _)
ChainOf(path, fuel) ==
    LET abs == pathResolve(<<path>>)
    IN IF fuel = 0 \/ abs \notin DOMAIN files \/ ~files[abs].ok THEN <<>>
       ELSE <<files[abs].doc>> \o
            (IF truthy(files[abs].doc, "INHERIT")
             THEN ChainOf(nextInheritPath(files[abs].doc, abs), fuel - 1)
             ELSE <<>>)

\* The number of parents of the chain that starts at a path string, when every
\* document of it exists and parses and it ends at a document without INHERIT;
\* -1 otherwise (a missing or malformed document, or a cycle).
RECURSIVE Parents(_, _)
Parents(path, fuel) ==
    LET abs == pathResolve(<<path>>)
    IN IF fuel = 0 \/ abs \notin DOMAIN files \/ ~files[abs].ok THEN -1
       ELSE IF ~truthy(files[abs].doc, "INHERIT") THEN 0
       ELSE LET rest == Parents(nextInheritPath(files[abs].doc, abs), fuel - 1)
            IN IF rest < 0 THEN -1 ELSE rest + 1

\* The merge the specification describes: a key the nearer document lacks is
\* filled from the farther one, two mappings are merged recursively, and any
\* other value of the nearer document (a scalar, null, a sequence) stands as it is.
RECURSIVE NearestFill(_, _, _)
NearestFill(obj, src, prefix) ==
    UNION {IF q \notin DOMAIN obj THEN subtree(src, q)
           ELSE IF obj[q] = Mapping /\ src[q] = Mapping THEN NearestFill(obj, src, q)
           ELSE {} : q \in childPaths(src, prefix)}

NearestWins(obj, src) ==
    LET filled == NearestFill(obj, src, <<>>)
    IN [q \in DOMAIN obj \cup filled |-> IF q \in DOMAIN obj THEN obj[q] ELSE src[q]]

RECURSIVE MergeChain(_)
MergeChain(docs) ==
    IF Len(docs) = 1 THEN docs[1]
    ELSE MergeChain(<<NearestWins(docs[1], docs[2])>> \o SubSeq(docs, 3, Len(docs)))

HasArray(doc) == \E q \in DOMAIN doc : doc[q] = Array

\* C9: for an acyclic chain the loaded result holds every key path of every
\* document of the chain, each with the value of the document nearest to the
\* child: the child wins at every depth, nested mappings are merged recursively
\* and a value that is present (a sequence included) is never changed by a parent.
C9_NearestDocumentWins ==
    \A filepath \in DOMAIN mkCache :
        mkCache[filepath].st = "resolved"
            => mkCache[filepath].ret = MergeChain(ChainOf(filepath, NumDocs))

\* The same statement for chains whose documents hold no sequence.
C9_NearestDocumentWinsWithoutArrays ==
    \A filepath \in DOMAIN mkCache :
        (/\ mkCache[filepath].st = "resolved"
         /\ \A i \in 1..Len(ChainOf(filepath, NumDocs)) :
               ~HasArray(ChainOf(filepath, NumDocs)[i]))
            => mkCache[filepath].ret = MergeChain(ChainOf(filepath, NumDocs))

\* the example of the specification: child {a: 1}, parent {a: 2, b: 3}
C9_ExampleLoaded ==
    /\ DocPath(1) \in DOMAIN mkCache
    /\ mkCache[DocPath(1)].st = "resolved"
    /\ Len(ChainOf(DocPath(1), NumDocs)) = 2
    /\ mkCache[DocPath(1)].ret =
          Leaf(<<"a">>, <<"1">>) @@ Leaf(<<"b">>, <<"3">>)
              @@ Leaf(<<"INHERIT">>, InheritRef(2))

\* C10: a load of a chain without cycles whose documents all exist and parse
\* eventually returns, after one loop iteration per parent document: the loop
\* stops at the first document that declares no INHERIT.
C10_AcyclicLoadReturns ==
    \A filepath \in LoadPaths :
        (filepath \in DOMAIN mkCache /\ Parents(filepath, NumDocs + 1) >= 0)
            ~> (/\ filepath \in DOMAIN mkCache
                /\ mkCache[filepath].st = "resolved"
                /\ mkCache[filepath].hops = Parents(filepath, NumDocs + 1))

\* a chain of NumDocs documents was loaded through all its parents
C10_Witness ==
    \E filepath \in DOMAIN mkCache :
        /\ mkCache[filepath].st = "resolved"
        /\ Parents(filepath, NumDocs + 1) = NumDocs - 1
        /\ mkCache[filepath].hops = NumDocs - 1
        /\ NumDocs > 1

\* The chain that starts at a path string runs into a cycle: `fuel` + 1
\* documents in a row exist, parse and declare INHERIT (more than the storage
\* holds when fuel = NumDocs).
RECURSIVE Cyclic(_, _)
Cyclic(path, fuel) ==
    LET abs == pathResolve(<<path>>)
    IN IF abs \notin DOMAIN files \/ ~files[abs].ok THEN FALSE
       ELSE IF ~truthy(files[abs].doc, "INHERIT") THEN FALSE
       ELSE IF fuel = 0 THEN TRUE
       ELSE Cyclic(pathResolve(<<pathDirname(abs), files[abs].doc[<<"INHERIT">>]>>), fuel - 1)

\* C15: a cycle in the INHERIT chain is not detected: the load of such a chain
\* is never rejected (no cycle error) and never resolved; whenever it waits in
\* the loop its loop variable names a document that was read successfully, so
\* the loop goes on, and it makes more iterations than the storage has documents.
C15_CycleLoopsForever ==
    /\ [](\A key \in DOMAIN mkCache :
            Cyclic(mkCache[key].filepath, NumDocs)
                => /\ mkCache[key].st = "pending"
                   /\ mkCache[key].pc = "inherit"
                        => /\ mkCache[key].inheritPath \in DOMAIN yamlCache
                           /\ yamlCache[mkCache[key].inheritPath].st # "rejected")
    /\ \A filepath \in LoadPaths :
          (filepath \in DOMAIN mkCache /\ Cyclic(filepath, NumDocs))
              ~> (/\ filepath \in DOMAIN mkCache
                  /\ mkCache[filepath].st = "pending"
                  /\ mkCache[filepath].hops = HopsCap)

\* the load of a cyclic chain that runs through every document of the storage
\* has iterated more often than there are documents
C15_Witness ==
    \E key \in DOMAIN mkCache :
        /\ Cyclic(mkCache[key].filepath, NumDocs)
        /\ Cardinality(DOMAIN files) = NumDocs
        /\ DOMAIN yamlCache = DOMAIN files \cup {mkCache[key].filepath}
        /\ mkCache[key].hops = HopsCap

(***************************************************************************)
(* Properties of the memoization (checked under SpecMemo)                  *)
(***************************************************************************)
\* the promise the first call with the path string of the call just made was
\* handed, when there was such a call
Repeated(call) == call.filepath \in DOMAIN firstLoad

FirstPromise(call) == mkCache[firstLoad[call.filepath]]

\* C11: readMkDocsYml is memoized by the path string alone: a call with a path
\* string that was used before, whatever its cwd argument, is handed the promise
\* of the first call and causes no storage read and no new execution, and the
\* value of a resolved promise stays what it was when the first call returned,
\* whatever has been written to the storage since.
C11_MemoizedByPathString ==
    /\ [][(lastLoad' # lastLoad /\ Repeated(lastLoad'))
            => /\ lastLoad'.promise = firstLoad[lastLoad'.filepath]
               /\ UNCHANGED <<mkCache, yamlCache, reads>>]_vars
    /\ [](\A key \in DOMAIN mkCache :
            mkCache[key].st = "resolved"
                => yamlCache[mkCache[key].filepath].obj = mkCache[key].ret)

\* a call served from the cache with another cwd than the first, after the
\* document it names was rewritten
C11_Witness ==
    /\ lastLoad.hit
    /\ mkCache[lastLoad.promise].st = "resolved"
    /\ mkCache[lastLoad.promise].cwd # lastLoad.cwd
    /\ mkCache[lastLoad.promise].ret[<<"a">>] = <<"1">>
    /\ Rewritten(pathResolve(<<lastLoad.filepath>>))

\* C14: a call with a path string whose first call is still in flight is handed
\* that call's promise and starts nothing: no execution, no readYaml, no storage
\* read; a promise settles once, so both callers get the same outcome; and no
\* path string is read from storage twice, so that with one path string in use
\* every document of the chain is read at most once.
C14_ConcurrentCallsCoalesce ==
    /\ [][(/\ lastLoad' # lastLoad
           /\ Repeated(lastLoad')
           /\ FirstPromise(lastLoad').st = "pending")
            => /\ lastLoad'.promise = firstLoad[lastLoad'.filepath]
               /\ UNCHANGED <<mkCache, yamlCache, reads>>]_vars
    /\ [][\A key \in DOMAIN mkCache :
            mkCache[key].st # "pending"
                => key \in DOMAIN mkCache' /\ mkCache'[key] = mkCache[key]]_vars
    /\ [](/\ \A k \in DOMAIN reads : reads[k] <= 1
          /\ Cardinality(DOMAIN firstLoad) <= 1
                => \A k1, k2 \in DOMAIN reads :
                      pathResolve(<<k1>>) = pathResolve(<<k2>>) => k1 = k2)

\* a call was served the promise of a load that is still reading its parents
C14_Witness ==
    /\ lastLoad.hit
    /\ mkCache[lastLoad.promise].st = "pending"
    /\ mkCache[lastLoad.promise].pc = "inherit"
    /\ mkCache[lastLoad.promise].hops > 0

\* C17: a failed load stays cached: the rejected promise never changes, and
\* every later call with the same path string is served it, with the same
\* error, without a new execution or storage read, also after the document that
\* made it fail has been replaced by a valid one.
C17_FailureMemoized ==
    /\ [][\A key \in DOMAIN mkCache :
            mkCache[key].st = "rejected"
                => /\ key \in DOMAIN mkCache' /\ mkCache'[key] = mkCache[key]
                   /\ mkCache[key].err \in {"NotFoundError", "ParseError"}]_vars
    /\ [][(/\ lastLoad' # lastLoad
           /\ Repeated(lastLoad')
           /\ FirstPromise(lastLoad').st = "rejected")
            => /\ lastLoad'.hit
               /\ lastLoad'.promise = firstLoad[lastLoad'.filepath]
               /\ mkCache'[lastLoad'.promise].st = "rejected"
               /\ UNCHANGED <<mkCache, yamlCache, reads>>]_vars

\* a call was served a rejected promise although every document that had failed
\* to load is by now valid in the storage
C17_Witness ==
    /\ lastLoad.hit
    /\ mkCache[lastLoad.promise].st = "rejected"
    /\ \A k \in DOMAIN yamlCache :
          yamlCache[k].st = "rejected" => parseFile(k).st = "resolved"

(***************************************************************************)
(* Properties of the directory settings (checked under SpecDirs)           *)
(***************************************************************************)
\* the absolute paths of the documents of the chain that starts at a path string
RECURSIVE ChainPathsOf(_, _)
ChainPathsOf(path, fuel) ==
    LET abs == pathResolve(<<path>>)
    IN IF fuel = 0 \/ abs \notin DOMAIN files \/ ~files[abs].ok THEN <<>>
       ELSE <<abs>> \o
            (IF truthy(files[abs].doc, "INHERIT")
             THEN ChainPathsOf(pathResolve(<<pathDirname(abs), files[abs].doc[<<"INHERIT">>]>>),
                               fuel - 1)
             ELSE <<>>)

\* the position in the chain of the nearest document that declares `key`, 0 if
\* none does
Declarer(paths, key) ==
    IF \E i \in 1..Len(paths) : truthy(files[paths[i]].doc, key)
    THEN CHOOSE i \in 1..Len(paths) :
            /\ truthy(files[paths[i]].doc, key)
            /\ \A j \in 1..(i - 1) : ~truthy(files[paths[j]].doc, key)
    ELSE 0

\* the value as its document declares it, and resolved against the directory
\* of that document
Declared(paths, i, key) == files[paths[i]].doc[<<key>>]
ResolvedAtDeclarer(paths, i, key) ==
    pathResolve(<<pathDirname(paths[i]), Declared(paths, i, key)>>)

\* C12: in the result of a load, the docs_dir of the nearest document of the
\* chain that declares one, the top-level document included, is absolute:
\* resolved against the directory of the document that declares it.
C12_DocsDirResolvedEverywhere ==
    \A key \in DOMAIN mkCache :
        mkCache[key].st = "resolved" =>
            LET paths == ChainPathsOf(mkCache[key].filepath, NumDocs)
                i == Declarer(paths, "docs_dir")
            IN i > 0 => /\ <<"docs_dir">> \in DOMAIN mkCache[key].ret
                        /\ mkCache[key].ret[<<"docs_dir">>]
                              = ResolvedAtDeclarer(paths, i, "docs_dir")

\* The same statement for the docs_dir of parent documents only.
C12_DocsDirOfParentsResolved ==
    \A key \in DOMAIN mkCache :
        mkCache[key].st = "resolved" =>
            LET paths == ChainPathsOf(mkCache[key].filepath, NumDocs)
                i == Declarer(paths, "docs_dir")
            IN i > 1 => /\ <<"docs_dir">> \in DOMAIN mkCache[key].ret
                        /\ mkCache[key].ret[<<"docs_dir">>]
                              = ResolvedAtDeclarer(paths, i, "docs_dir")

\* C13: every hop of the chain is found at the path resolved against the
\* directory of the document that names it, so a load of a nested chain never
\* fails and makes one hop per parent; the site_dir and docs_dir a parent is the
\* nearest to declare come out resolved against that parent's own directory, and
\* what the child declares itself is kept: its site_dir as the child resolved
\* it, its docs_dir as declared.
C13_HopsResolveAgainstDeclarer ==
    \A key \in DOMAIN mkCache :
        /\ mkCache[key].st # "rejected"
        /\ mkCache[key].st = "resolved" =>
            LET exec == mkCache[key]
                paths == ChainPathsOf(exec.filepath, NumDocs)
                s == Declarer(paths, "site_dir")
                d == Declarer(paths, "docs_dir")
            IN /\ Len(paths) = Cardinality(DOMAIN files)
               /\ exec.hops = Len(paths) - 1
               /\ (s = 0) = (<<"site_dir">> \notin DOMAIN exec.ret)
               /\ (d = 0) = (<<"docs_dir">> \notin DOMAIN exec.ret)
               /\ s = 1 => exec.ret[<<"site_dir">>]
                             = pathResolve(<<exec.cwd, pathDirname(exec.filepath),
                                             Declared(paths, 1, "site_dir")>>)
               /\ s > 1 => exec.ret[<<"site_dir">>] = ResolvedAtDeclarer(paths, s, "site_dir")
               /\ d = 1 => exec.ret[<<"docs_dir">>] = Declared(paths, 1, "docs_dir")
               /\ d > 1 => exec.ret[<<"docs_dir">>] = ResolvedAtDeclarer(paths, d, "docs_dir")

\* a chain of NumDocs documents was loaded in which the child and its parent
\* both declare site_dir and only the farthest document declares docs_dir
C13_Witness ==
    \E key \in DOMAIN mkCache :
        LET paths == ChainPathsOf(mkCache[key].filepath, NumDocs)
        IN /\ mkCache[key].st = "resolved"
           /\ NumDocs > 2
           /\ Len(paths) = NumDocs
           /\ truthy(files[paths[1]].doc, "site_dir")
           /\ truthy(files[paths[2]].doc, "site_dir")
           /\ Declarer(paths, "docs_dir") = NumDocs

(***************************************************************************)
(* Properties of the shared cache (checked under SpecShare)                *)
(***************************************************************************)
\* What readMkDocsYml(filepath, cwd) returns in a process that has loaded
\* nothing before: every document is as the storage holds it.
RECURSIVE FreshMerge(_, _, _)
FreshMerge(mkDocsYml, inheritPath, fuel) ==
    IF inheritPath = <<>> \/ fuel = 0 THEN mkDocsYml
    ELSE LET inheritYml == resolveInheritDirs(files[inheritPath].doc, inheritPath)
         IN FreshMerge(defaultsDeep(mkDocsYml, inheritYml),
                       nextInheritPath(inheritYml, inheritPath), fuel - 1)

FreshResult(filepath, cwd) ==
    LET mkDocsYml == resolveChildDirs(files[pathResolve(<<filepath>>)].doc, filepath, cwd)
    IN FreshMerge(mkDocsYml, nextInheritPath(mkDocsYml, filepath), NumDocs)

DeclaresDocsDir == \E p \in DOMAIN files : truthy(files[p].doc, "docs_dir")

\* C16: the value a load returns is the one the same call returns in a fresh
\* process, whatever other documents of the storage were loaded before it.
C16_IndependentOfEarlierLoads ==
    \A key \in DOMAIN mkCache :
        mkCache[key].st = "resolved"
            => mkCache[key].ret = FreshResult(mkCache[key].filepath, mkCache[key].cwd)

\* The same statement for the first load of a process, and for storages in which
\* no document declares docs_dir.
C16_IndependentWithoutDocsDir ==
    \A key \in DOMAIN mkCache :
        (mkCache[key].st = "resolved" /\ (~DeclaresDocsDir \/ Cardinality(DOMAIN mkCache) = 1))
            => mkCache[key].ret = FreshResult(mkCache[key].filepath, mkCache[key].cwd)

(***************************************************************************)
(* Properties of the sandbox store (checked under SpecSandbox)             *)
(***************************************************************************)
\* By the history alone: the store holds a sandbox after the calls h if the last
\* createSandbox or reset among them is a createSandbox, or if there is neither
\* and the constructor was passed a sandbox.
HoldsSandbox(h) ==
    LET marks == {j \in 2..Len(h) : h[j].op \in {"createSandbox", "reset"}}
    IN IF marks = {} THEN h[1].sandbox # 0
       ELSE h[CHOOSE j \in marks : \A k \in marks : k <= j].op = "createSandbox"

\* C18: over any sequence of createSandbox, verify and reset calls on a store,
\* verify() throws ReferenceError exactly when the store holds no sandbox (none
\* was passed to the constructor and none created yet, or reset() was called and
\* createSandbox() not since); otherwise it does what the verify() of the held
\* sandbox does.
C18_VerifyThrowsIffNoSandbox ==
    /\ (sandbox # 0) = HoldsSandbox(calls)
    /\ \A i \in 2..Len(calls) :
          calls[i].op = "verify" =>
              IF HoldsSandbox(SubSeq(calls, 1, i - 1))
              THEN /\ calls[i].outcome \in SinonVerify
                   /\ calls[i].sandbox = calls[i - 1].sandbox
                   /\ calls[i].sandbox # 0
              ELSE calls[i].outcome = "ReferenceError"

\* a store built on a passed sandbox verified, was reset, refused to verify, and
\* verified again after createSandbox, on a new sandbox
C18_Witness ==
    /\ Len(calls) = 6
    /\ calls[1].sandbox = 1
    /\ calls[2].op = "verify" /\ calls[2].outcome = "verified"
    /\ calls[3].op = "reset"
    /\ calls[4].op = "verify" /\ calls[4].outcome = "ReferenceError"
    /\ calls[5].op = "createSandbox"
    /\ calls[6].op = "verify" /\ calls[6].outcome = "verified" /\ calls[6].sandbox = 2

====
